---------------------------- MODULE Spec2Model ----------------------------
(***************************************************************************)
(* A model of the two webhook receivers of todoist_inbox_organizer:        *)
(*   - todoist_inbox_organizer.py ("org"): dedup cache with a 30 s window, *)
(*     a process-wide rate-limit guard, background process_task with real  *)
(*     suspension points (the awaited TodoistAPIAsync calls);              *)
(*   - context_labeler.py ("ctx"): dedup cache with a 5 s window, a        *)
(*     background process_task that never suspends (synctodoist calls are  *)
(*     synchronous).                                                       *)
(* The two files are two separate programs; the variable app says which    *)
(* one a behaviour is a run of.                                            *)
(*                                                                         *)
(* Time is the wall clock in whole seconds.  The clock starts at           *)
(* StartTime >= DEDUPLICATION_WINDOW: time.time() is seconds since 1970,   *)
(* so the default timestamp 0 of the defaultdict is always at least one    *)
(* window in the past.                                                     *)
(*                                                                         *)
(* An awaited external call is atomic at the moment it is issued: the step *)
(* that issues it also fixes the server's answer (stored in the            *)
(* coroutine's res field); the coroutine is suspended until a later step   *)
(* resumes it with that answer.  Synchronous calls (update_task,           *)
(* requests.post) are issued and answered inside one step.                 *)
(*                                                                         *)
(* Specifications:                                                         *)
(*   SpecDedup  both handlers and their background actions, fine clock;    *)
(*   SpecLabel  add_label_to_task called twice in sequence;                *)
(*   SpecTask   one event and its background action, every section;        *)
(*   SpecHook   the organizer's handler, concurrent background actions and *)
(*              the rate-limit guard, coarse clock;                        *)
(*   SpecMove   a task reported outside any section, then moved by the     *)
(*              user into "Work" and "Home", both programs;                *)
(*   SpecScope  the context labeler and a task inside or outside the Inbox *)
(*              project and its sections;                                  *)
(*   SpecDue    the context labeler's set_due_date with relative due       *)
(*              strings, as a function of the string and the local time;   *)
(*   SpecInbox  the organizer's find-or-create of the staging section,     *)
(*              two background actions running concurrently.               *)
(***************************************************************************)
EXTENDS Integers, Sequences, FiniteSets, TLC

\* ------------------------------------------------------------- bounds
\* Background coroutines that can be alive at once.
MaxBg == 2
\* Cap of the events of one task id inside one dedup window.
MaxCount == 2
\* The wall clock at the start of a run (seconds).
StartTime == 30

\* ------------------------------------------------- program constants
DEDUPLICATION_WINDOW == 30
CL_DEDUP_WINDOW == 5
DEFAULT_BACKOFF == 60

INBOX_PROJECT_ID == "2236493795"
P_WORK == "2327425429"
P_HOME == "2244866374"
P_SIDE == "2327425662"

SECTION_TO_LABEL_MAPPING ==
    ("Work" :> "context/work") @@ ("Home" :> "context/home") @@
    ("Side" :> "context/side") @@
    ("Move to Immediate" :> "move/immediate") @@
    ("Move to Parallel" :> "move/parallel") @@
    ("Move to project Inbox" :> "move/inbox")

\* A faulty variant of the table, which routes a label to the Inbox project.
LABEL_TO_PROJECT_MAPPING_inbox ==
    ("context/work" :> P_WORK) @@ ("context/home" :> INBOX_PROJECT_ID) @@
    ("context/side" :> P_SIDE)

\* A faulty variant of the table, which knows one label more.
LABEL_TO_PROJECT_MAPPING_later ==
    ("context/work" :> P_WORK) @@ ("context/home" :> P_HOME) @@
    ("context/side" :> P_SIDE) @@ ("later" :> P_SIDE)

LABEL_TO_PROJECT_MAPPING ==
    ("context/work" :> P_WORK) @@ ("context/home" :> P_HOME) @@
    ("context/side" :> P_SIDE)

\* section name -> due_string (the due_lang is always "en")
DUE_TIME_SECTIONS ==
    ("Due 9am" :> "at 9am") @@ ("Due 12pm" :> "at 12pm") @@
    ("Due 5pm" :> "at 5pm")

CL_SECTION_TO_LABEL_MAPPING ==
    ("Work" :> "context/work") @@ ("Home" :> "context/home") @@
    ("Side" :> "context/side")

CL_DUE_TIME_SECTIONS ==
    ("Due 9am" :> "today at 9am") @@ ("Due 12pm" :> "today at 12pm") @@
    ("Due 5pm" :> "today at 5pm") @@ ("Tomorrow" :> "tomorrow") @@
    ("This Weekend" :> "saturday") @@ ("Next Week" :> "on monday") @@
    ("In 1 hour" :> "+1 hour")

\* Section names s with s.startswith("Inbox *"), among the names of the model.
InboxPrefixed == {"Inbox *", "Inbox * triage"}

\* ------------------------------------------------------ the universe
TaskIds == {"t1", "t2"}
Projects == {INBOX_PROJECT_ID, P_WORK, P_HOME, P_SIDE}
EventNames == {"item:added", "item:updated", "item:completed"}
\* Python's None / a falsy section id.
None == "None"
NoSection == ""
NoHdr == 0 - 1
NoDue == [string |-> "", today |-> FALSE]

\* The instants at which something can happen, as offsets from StartTime:
\* both sides of the 30 s and of the 5 s window, and of the 60 s backoff.
OrgOffsets == {0, 29, 30, 59, 60}
ClOffsets == {0, 4, 5, 9, 10}
GuardOffsets == {0, 30, 60, 90}

VARIABLES
    app,                    \* "org" | "ctx": the program that runs
    now,                    \* the wall clock
    rate_limited,           \* org: global flag
    rate_limit_reset_time,  \* org: global reset time
    processed_tasks,        \* org: task id -> [timestamp, count]
    cl_processed_tasks,     \* ctx: task id -> last processed time (partial)
    tasks,                  \* the external system: task id -> task
    sections,               \* the external system: project -> its sections
    procs,                  \* the background coroutines
    hist,                   \* history: task id -> the last event that passed
                            \*   the dedup check, and the suppressed ones since
    ev                      \* history: what the last step did

vars == <<app, now, rate_limited, rate_limit_reset_time, processed_tasks,
          cl_processed_tasks, tasks, sections, procs, hist, ev>>

Slots == 1..MaxBg

NoRes == [st |-> "none", hdr |-> NoHdr]
NoSecs == [inbox |-> 0, immediate |-> FALSE, parallel |-> FALSE]

Idle == [pc |-> "idle", task_id |-> None, project_id |-> None,
         section_id |-> NoSection, section_name |-> None,
         labels |-> <<>>, due |-> NoDue, secs |-> NoSecs,
         idx |-> 0, move_type |-> "", label |-> "", target |-> "",
         res |-> NoRes, exc |-> "", job |-> "process_task", round |-> 0,
         ret1 |-> "", ret |-> "", after1 |-> <<>>, writes1 |-> 0,
         before |-> <<>>,
         moved |-> {}, mutated |-> FALSE, writes |-> 0]

Free(p) == procs[p].pc \in {"idle", "done", "raised"}

ItemEvent(name) == name \in {"item:added", "item:updated"}

\* ------------------------------------------------ the rate-limit guard
\* A faulty variant of check_rate_limit, which still raises at the reset time
\* itself.
check_rate_limit_closed(rl, rt, t) ==
    IF rl
    THEN IF t <= rt
         THEN [raised |-> TRUE, rl |-> rl, rt |-> rt]
         ELSE [raised |-> FALSE, rl |-> FALSE, rt |-> 0]
    ELSE [raised |-> FALSE, rl |-> rl, rt |-> rt]

\* check_rate_limit at time t with the globals (rl, rt): whether it raises
\* HTTPException(429), and the globals it leaves.
check_rate_limit(rl, rt, t) ==
    IF rl
    THEN IF t < rt
         THEN [raised |-> TRUE, rl |-> rl, rt |-> rt]
         ELSE [raised |-> FALSE, rl |-> FALSE, rt |-> 0]
    ELSE [raised |-> FALSE, rl |-> rl, rt |-> rt]

\* handle_rate_limit(reset_time): the globals it leaves.
handle_rate_limit(reset_time) == [rl |-> TRUE, rt |-> reset_time]

\* int(getattr(e, 'headers', {}).get('X-Rate-Limit-Reset', time.time() + 60))
\* for an exception whose headers are a dict: hdr is the advertised reset
\* time, or NoHdr.
reset_time_of(hdr, t) == IF hdr = NoHdr THEN t + DEFAULT_BACKOFF ELSE hdr

GuardActive == rate_limited /\ now < rate_limit_reset_time

\* ------------------------------------------------------------ the clock
Tick(offsets) ==
    /\ \E t \in {StartTime + o : o \in offsets} :
          /\ t > now
          /\ \A u \in {StartTime + o : o \in offsets} : u > now => t <= u
          /\ now' = t
    /\ ev' = [type |-> "tick"]
    /\ UNCHANGED <<app, rate_limited, rate_limit_reset_time, processed_tasks,
                   cl_processed_tasks, tasks, sections, procs, hist>>

\* ------------------------------------------------- the webhook handlers
\* History of the dedup decisions, kept beside the caches.
HistPass(id) == [hist EXCEPT ![id] = [seen |-> TRUE, t |-> now, n |-> 0]]
HistSkip(id) == [hist EXCEPT ![id].n = @ + 1]

\* context_labeler.py, Depends(get_todoist_api): every request builds its own
\* TodoistAPI and calls api.sync() before the handler's body runs.  These are
\* the external calls of the dependency.
get_todoist_api == <<"sync">>

\* The external calls a request issues before it answers: none in the
\* organizer; in the context labeler the dependency's sync, then the fetch of
\* the task when the sync succeeded and the event is an item event.
Issued(name, sync_ok) ==
    IF app = "org" THEN <<>>
    ELSE get_todoist_api \o
         (IF sync_ok /\ ItemEvent(name) THEN <<"get_task">> ELSE <<>>)

WebhookEv(name, id, sec, answer, reached, skipped, scheduled) ==
    [type |-> "webhook", item |-> ItemEvent(name), id |-> id, t |-> now,
     sec |-> sec, issued |-> Issued(name, answer # "error"),
     answer |-> answer, reached |-> reached, skipped |-> skipped,
     scheduled |-> scheduled, prev |-> hist[id], guard |-> GuardActive,
     rl |-> rate_limited, rt |-> rate_limit_reset_time,
     old_ts |-> IF app = "org" THEN processed_tasks[id].timestamp
                ELSE IF id \in DOMAIN cl_processed_tasks
                     THEN cl_processed_tasks[id] ELSE 0,
     old_count |-> processed_tasks[id].count]

\* Faulty variants of the dedup decision: one that still suppresses an event
\* arriving exactly one window after the processed one, and one that
\* refreshes the timestamp when it suppresses.
dedup_check_closed(info, t) ==
    IF t - info.timestamp <= DEDUPLICATION_WINDOW
    THEN [info |-> [info EXCEPT !.count = @ + 1], skip |-> info.count + 1 > 1]
    ELSE [info |-> [timestamp |-> t, count |-> 1], skip |-> FALSE]

dedup_check_refreshing(info, t) ==
    IF t - info.timestamp < DEDUPLICATION_WINDOW
    THEN [info |-> [timestamp |-> t, count |-> info.count + 1],
          skip |-> info.count + 1 > 1]
    ELSE [info |-> [timestamp |-> t, count |-> 1], skip |-> FALSE]

\* A faulty variant of the dedup decision, which lets the event pass without
\* recording its time.
dedup_check_forgetting(info, t) ==
    IF t - info.timestamp < DEDUPLICATION_WINDOW
    THEN [info |-> [info EXCEPT !.count = @ + 1], skip |-> info.count + 1 > 1]
    ELSE [info |-> [info EXCEPT !.count = 1], skip |-> FALSE]

\* todoist_inbox_organizer.py, lines 391-401: the dedup decision for the
\* entry info at time t: the entry it leaves and whether the event is skipped.
dedup_check(info, t) ==
    IF t - info.timestamp < DEDUPLICATION_WINDOW
    THEN [info |-> [info EXCEPT !.count = @ + 1], skip |-> info.count + 1 > 1]
    ELSE [info |-> [timestamp |-> t, count |-> 1], skip |-> FALSE]

\* background_tasks.add_task(process_task, task_id, project_id, section_id, content)
Scheduled(id, proj, sec) ==
    [Idle EXCEPT !.pc = "scheduled", !.task_id = id, !.project_id = proj,
                 !.section_id = sec]

todoist_webhook(name, id, proj, sec) ==
    /\ app = "org"
    /\ UNCHANGED <<app, now, cl_processed_tasks, tasks, sections>>
    /\ IF ~ItemEvent(name)
       THEN /\ ev' = WebhookEv(name, id, sec, "ok", FALSE, FALSE, FALSE)
            /\ UNCHANGED <<rate_limited, rate_limit_reset_time,
                           processed_tasks, procs, hist>>
       ELSE LET d == dedup_check(processed_tasks[id], now) IN
            /\ d.info.count <= MaxCount
            /\ processed_tasks' = [processed_tasks EXCEPT ![id] = d.info]
            /\ IF d.skip
               THEN /\ ev' = WebhookEv(name, id, sec, "ok", TRUE, TRUE, FALSE)
                    /\ hist' = HistSkip(id)
                    /\ UNCHANGED <<rate_limited, rate_limit_reset_time, procs>>
               ELSE /\ hist' = HistPass(id)
                    /\ IF sec = NoSection
                       THEN /\ ev' = WebhookEv(name, id, sec, "ok", TRUE,
                                               FALSE, FALSE)
                            /\ UNCHANGED <<rate_limited, rate_limit_reset_time,
                                           procs>>
                       ELSE LET c == check_rate_limit(rate_limited,
                                        rate_limit_reset_time, now) IN
                            IF c.raised
                            THEN /\ ev' = WebhookEv(name, id, sec,
                                              "rate limited", TRUE, FALSE, FALSE)
                                 /\ UNCHANGED <<rate_limited,
                                                rate_limit_reset_time, procs>>
                            ELSE /\ rate_limited' = c.rl
                                 /\ rate_limit_reset_time' = c.rt
                                 /\ \E p \in Slots :
                                      /\ Free(p)
                                      /\ \A q \in Slots : Free(q) => p <= q
                                      /\ procs' = [procs EXCEPT
                                            ![p] = Scheduled(id, proj, sec)]
                                 /\ ev' = WebhookEv(name, id, sec, "ok", TRUE,
                                                    FALSE, TRUE)

\* context_labeler.py, lines 276-280: whether the event is skipped.
cl_dedup_skip(cache, id, t) ==
    /\ id \in DOMAIN cache
    /\ t - cache[id] < CL_DEDUP_WINDOW

\* context_labeler.py, line 286: processed_tasks[task_id] = datetime.now()
\* (the two clock readings of one request, lines 278 and 286, fall in the
\* same second).
cl_dedup_record(cache, id, t) ==
    [x \in DOMAIN cache \cup {id} |-> IF x = id THEN t ELSE cache[x]]

\* A faulty variant of the handler, which records the time of an event whose
\* task it failed to fetch.
cl_todoist_webhook_recording(name, id, sync_ok, fetch_ok) ==
    /\ app = "ctx"
    /\ UNCHANGED <<app, now, rate_limited, rate_limit_reset_time,
                   processed_tasks, tasks, sections>>
    /\ IF ~sync_ok
       THEN /\ ev' = WebhookEv(name, id, tasks[id].section, "error", FALSE,
                               FALSE, FALSE)
            /\ UNCHANGED <<cl_processed_tasks, procs, hist>>
       ELSE IF ~ItemEvent(name)
       THEN /\ ev' = WebhookEv(name, id, tasks[id].section, "ok", FALSE,
                               FALSE, FALSE)
            /\ UNCHANGED <<cl_processed_tasks, procs, hist>>
       ELSE IF ~fetch_ok
       THEN /\ ev' = WebhookEv(name, id, tasks[id].section, "ok", FALSE,
                               FALSE, FALSE)
            /\ cl_processed_tasks' = cl_dedup_record(cl_processed_tasks, id, now)
            /\ UNCHANGED <<procs, hist>>
       ELSE IF cl_dedup_skip(cl_processed_tasks, id, now)
       THEN /\ hist[id].n + 1 < MaxCount
            /\ ev' = WebhookEv(name, id, tasks[id].section, "ok", TRUE, TRUE,
                               FALSE)
            /\ hist' = HistSkip(id)
            /\ UNCHANGED <<cl_processed_tasks, procs>>
       ELSE /\ \E p \in Slots :
                 /\ Free(p)
                 /\ \A q \in Slots : Free(q) => p <= q
                 /\ procs' = [procs EXCEPT ![p] =
                       [Scheduled(id, tasks[id].project_id, tasks[id].section)
                          EXCEPT !.labels = tasks[id].labels,
                                 !.due = tasks[id].due]]
            /\ cl_processed_tasks' = cl_dedup_record(cl_processed_tasks, id, now)
            /\ hist' = HistPass(id)
            /\ ev' = WebhookEv(name, id, tasks[id].section, "ok", TRUE, FALSE,
                               TRUE)

\* sync_ok: whether the dependency's api.sync() succeeded; when it raises, the
\* handler's body never runs and the request is answered by the exception
\* handler (lines 290-293), not with "ok".
cl_todoist_webhook(name, id, sync_ok, fetch_ok) ==
    /\ app = "ctx"
    /\ UNCHANGED <<app, now, rate_limited, rate_limit_reset_time,
                   processed_tasks, tasks, sections>>
    /\ IF ~sync_ok
       THEN /\ ev' = WebhookEv(name, id, tasks[id].section, "error", FALSE,
                               FALSE, FALSE)
            /\ UNCHANGED <<cl_processed_tasks, procs, hist>>
       ELSE IF ~ItemEvent(name) \/ ~fetch_ok
       THEN /\ ev' = WebhookEv(name, id, tasks[id].section, "ok", FALSE,
                               FALSE, FALSE)
            /\ UNCHANGED <<cl_processed_tasks, procs, hist>>
       ELSE IF cl_dedup_skip(cl_processed_tasks, id, now)
       THEN /\ hist[id].n + 1 < MaxCount
            /\ ev' = WebhookEv(name, id, tasks[id].section, "ok", TRUE, TRUE,
                               FALSE)
            /\ hist' = HistSkip(id)
            /\ UNCHANGED <<cl_processed_tasks, procs>>
       ELSE /\ \E p \in Slots :
                 /\ Free(p)
                 /\ \A q \in Slots : Free(q) => p <= q
                 /\ procs' = [procs EXCEPT ![p] =
                       [Scheduled(id, tasks[id].project_id, tasks[id].section)
                          EXCEPT !.labels = tasks[id].labels,
                                 !.due = tasks[id].due]]
            /\ cl_processed_tasks' = cl_dedup_record(cl_processed_tasks, id, now)
            /\ hist' = HistPass(id)
            /\ ev' = WebhookEv(name, id, tasks[id].section, "ok", TRUE, FALSE,
                               TRUE)

\* ----------------------------------------- the external API's answers
\* An awaited or synchronous REST call: it succeeds, raises an exception with
\* status_code 429 (with or without an X-Rate-Limit-Reset header), or raises
\* another exception.
HeaderResets == {StartTime + 30}
RestOutcomes ==
    {[st |-> "ok", hdr |-> NoHdr], [st |-> "err", hdr |-> NoHdr]} \cup
    {[st |-> "e429", hdr |-> h] : h \in HeaderResets \cup {NoHdr}}
\* todoist_sync_api.update_task may also return a falsy value.
UpdOutcomes == RestOutcomes \cup {[st |-> "false", hdr |-> NoHdr]}
\* requests.post: the response's status code, or a RequestException.
PostOutcomes == {"200", "429", "neterr"}

\* ----------------------------------------------- the world of one step
\* The shared state a step reads and writes, with the calls it issued and
\* the 429 answers it received (history).
World == [rl |-> rate_limited, rt |-> rate_limit_reset_time, tasks |-> tasks,
          secs |-> sections, calls |-> <<>>, got429 |-> <<>>, checks |-> <<>>]

Call(w, op, mut, proj) ==
    [w EXCEPT !.calls = Append(@, [op |-> op, mut |-> mut, project |-> proj,
                                   guard |-> w.rl /\ now < w.rt])]
Got429(w, op, hdr) == [w EXCEPT !.got429 = Append(@, [op |-> op, hdr |-> hdr])]
SetGuard(w, g) == [w EXCEPT !.rl = g.rl, !.rt = g.rt]

\* "await check_rate_limit()" in the world w: whether it raised, and the world
\* it leaves (history: what the guard was and became, and how many calls the
\* step had issued before the check).
Check(w) ==
    LET c == check_rate_limit(w.rl, w.rt, now) IN
    [raised |-> c.raised,
     w |-> [SetGuard(w, c) EXCEPT !.checks =
              Append(@, [rl |-> w.rl, rt |-> w.rt, raised |-> c.raised,
                         rl2 |-> c.rl, rt2 |-> c.rt,
                         ncalls |-> Len(w.calls)])]]

InSeq(x, s) == \E i \in 1..Len(s) : s[i] = x

\* Exceptions.
E429(hdr) == [kind |-> "Api429", hdr |-> hdr]
HTTPExc == [kind |-> "HTTPException", hdr |-> NoHdr]
ApiErr == [kind |-> "ApiError", hdr |-> NoHdr]
AttrErr == [kind |-> "AttributeError", hdr |-> NoHdr]

R(w, p) == [w |-> w, p |-> p]
Done(w, p) == R(w, [p EXCEPT !.pc = "done", !.res = NoRes])
Raised(w, p, e) == R(w, [p EXCEPT !.pc = "raised", !.exc = e.kind, !.res = NoRes])

\* The prefix every "except Exception as e" block of the organizer shares:
\*     if hasattr(e, 'status_code') and e.status_code == 429:
\*         await handle_rate_limit(int(getattr(e, 'headers', {}).get(...)))
\*         raise HTTPException(status_code=429, ...)
\* An API exception with status 429 sets the guard and leaves as
\* HTTPException.  fastapi's HTTPException (raised by check_rate_limit or by
\* an inner block) has status_code 429 and the attribute headers = None, so
\* the .get fails: the block leaves with AttributeError, handle_rate_limit not
\* called.  Any other exception falls through to the block's log line.
except_429(w, e) ==
    IF e.kind = "Api429"
    THEN [w |-> SetGuard(w, handle_rate_limit(reset_time_of(e.hdr, now))),
          e |-> HTTPExc, fell |-> FALSE]
    ELSE IF e.kind = "HTTPException"
    THEN [w |-> w, e |-> AttrErr, fell |-> FALSE]
    ELSE [w |-> w, e |-> e, fell |-> TRUE]

\* process_task, lines 376-381: the exception leaves the background task.
pt_except(w, p, e) ==
    LET h == except_429(w, e) IN Raised(h.w, p, h.e)

\* get_section_name, lines 125-130, inside process_task.
gsn_except(w, p, e) ==
    LET h == except_429(w, e) IN pt_except(h.w, p, h.e)

\* process_move_section, lines 338-343, inside process_task.
pms_except(w, p, e) ==
    LET h == except_429(w, e) IN pt_except(h.w, p, h.e)

\* ------------------------------------------------------- add_label_to_task
\* The caller of add_label_to_task is process_task, or (job "add_label_x2")
\* a caller that calls it twice in sequence with the same label.
al_issue(w, p, ro) ==
    LET c == Check(w) IN
    IF c.raised
    THEN LET h == except_429(c.w, HTTPExc) IN
         IF p.job = "process_task" THEN pt_except(h.w, p, h.e)
         ELSE Raised(h.w, p, h.e)
    ELSE R(Call(c.w, "get_task", FALSE, ""),
           [p EXCEPT !.pc = "al_get_task", !.res = ro,
                     !.labels = w.tasks[p.task_id].labels])

\* add_label_to_task, lines 151-154.
add_label_start(w, p, ro) ==
    al_issue(w, [p EXCEPT !.before = IF p.round <= 1
                                     THEN w.tasks[p.task_id].labels ELSE @],
             ro)

\* add_label_to_task returned ret ("True" or "False").
al_return(w, p, ret, ro) ==
    IF p.job = "add_label_x2" /\ p.round = 1
    THEN add_label_start(w, [p EXCEPT !.round = 2, !.ret1 = ret,
                                      !.after1 = w.tasks[p.task_id].labels,
                                      !.writes1 = p.writes
                                         + Cardinality({i \in 1..Len(w.calls) :
                                              w.calls[i].op = "update_task"})],
                         ro)
    ELSE Done(w, [p EXCEPT !.ret = ret])

\* add_label_to_task, lines 167-172.
al_except(w, p, e) ==
    LET h == except_429(w, e) IN
    IF p.job = "process_task" THEN pt_except(h.w, p, h.e)
    ELSE Raised(h.w, p, h.e)

\* A faulty variant: the write replaces the labels the task carried.
al_new_labels_replacing(labels, label) == <<label>>

\* The label list add_label_to_task writes (line 156).
al_new_labels(labels, label) == labels \o <<label>>

\* Whether add_label_to_task writes (line 155).
al_must_write(labels, label) == ~InSeq(label, labels)

\* add_label_to_task, lines 155-166, resumed with the answer of get_task.
resume_al_get_task(w, p, uo, ro) ==
    IF p.res.st = "e429"
    THEN al_except(Got429(w, "get_task", p.res.hdr), p, E429(p.res.hdr))
    ELSE IF p.res.st = "err" THEN al_except(w, p, ApiErr)
    ELSE IF al_must_write(p.labels, p.label)
    THEN LET w1 == Call(w, "update_task", TRUE, "") IN
         IF uo.st = "ok"
         THEN al_return([w1 EXCEPT !.tasks[p.task_id].labels =
                            al_new_labels(p.labels, p.label)], p, "True", ro)
         ELSE IF uo.st = "false" THEN al_return(w1, p, "False", ro)
         ELSE IF uo.st = "e429"
         THEN al_except(Got429(w1, "update_task", uo.hdr), p, E429(uo.hdr))
         ELSE al_except(w1, p, ApiErr)
    ELSE al_return(w, p, "True", ro)

\* ------------------------------------------------ set / remove due date
\* set_due_date, lines 211-243, called by process_task, which then returns.
set_due_date(w, p, due_string, uo) ==
    LET c == Check(w) IN
    IF c.raised
    THEN LET h == except_429(c.w, HTTPExc) IN pt_except(h.w, p, h.e)
    ELSE LET w1 == Call(c.w, "update_task", TRUE, "") IN
         IF uo.st = "ok"
         THEN Done([w1 EXCEPT !.tasks[p.task_id].due =
                       [string |-> due_string, today |-> TRUE]], p)
         ELSE IF uo.st = "e429"
         THEN LET h == except_429(Got429(w1, "update_task", uo.hdr),
                                  E429(uo.hdr))
              IN  pt_except(h.w, p, h.e)
         ELSE Done(w1, p)

\* remove_due_date, lines 92-118, called by process_task, which then returns.
remove_due_date(w, p, po) ==
    LET w1 == Call(w, "item_update", TRUE, "") IN
    IF po = "200"
    THEN Done([w1 EXCEPT !.tasks[p.task_id].due = NoDue],
              [p EXCEPT !.ret = "True"])
    ELSE IF po = "429"
    THEN Done(Got429(w1, "item_update", NoHdr), [p EXCEPT !.ret = "False"])
    ELSE Done(w1, [p EXCEPT !.ret = "False"])

\* --------------------------------------------------- process_move_section
MoveTypes == {"move/immediate", "move/parallel", "move/inbox"}

SectionPrefix(move_type) ==
    IF move_type = "move/immediate" THEN "Immediate--" ELSE "Parallel=-"

\* What process_move_section does when a move returned False (lines 335-336):
\* the index of the label the loop goes on with.
after_failed_move(i) == i + 1

\* process_move_section, lines 319-337: the for loop from the i-th label on,
\* up to its next suspension.  outs[i] is the answer to the item_move request
\* of line 278 for the i-th label; ro is the answer to the call it suspends on.
RECURSIVE pms_loop(_, _, _, _, _)
pms_loop(w, p, i, outs, ro) ==
    IF i > Len(p.labels) THEN Done(w, p)
    ELSE IF p.labels[i] \notin DOMAIN LABEL_TO_PROJECT_MAPPING
    THEN pms_loop(w, p, i + 1, outs, ro)
    ELSE
      LET target == LABEL_TO_PROJECT_MAPPING[p.labels[i]]
          c == Check(w)
          q == [p EXCEPT !.idx = i, !.target = target]
      IN
      IF c.raised
      THEN \* lines 262 / 176: not a RequestException, so it reaches line 338
           pms_except(c.w, q, HTTPExc)
      ELSE IF p.move_type \in {"move/immediate", "move/parallel"}
      THEN \* move_task_to_project_and_section, lines 260-287
           LET w1 == Call(c.w, "item_move", TRUE, target) IN
           IF outs[i] = "200"
           THEN R(Call([w1 EXCEPT !.tasks[p.task_id].project_id = target,
                                  !.tasks[p.task_id].section = NoSection],
                       "get_sections", FALSE, target),
                  [q EXCEPT !.pc = "sec_get_sections", !.res = ro,
                            !.secs = w.secs[target]])
           ELSE pms_loop(IF outs[i] = "429"
                         THEN Got429(w1, "item_move", NoHdr) ELSE w1,
                         p, after_failed_move(i), outs, ro)
      ELSE \* move_task_to_project_inbox, lines 174-177, get_or_create_inbox_section
           R(Call(c.w, "get_sections", FALSE, target),
             [q EXCEPT !.pc = "inbox_get_sections", !.res = ro,
                       !.secs = w.secs[target]])

\* process_move_section, lines 314-317.
process_move_section(w, p, ro) ==
    LET c == Check(w) IN
    IF c.raised THEN pms_except(c.w, p, HTTPExc)
    ELSE R(Call(c.w, "get_task", FALSE, ""),
           [p EXCEPT !.pc = "pms_get_task", !.res = ro,
                     !.labels = w.tasks[p.task_id].labels])

\* process_move_section, line 318, resumed with the answer of get_task.
resume_pms_get_task(w, p, outs, ro) ==
    IF p.res.st = "e429"
    THEN pms_except(Got429(w, "get_task", p.res.hdr), p, E429(p.res.hdr))
    ELSE IF p.res.st = "err" THEN pms_except(w, p, ApiErr)
    ELSE pms_loop(w, p, 1, outs, ro)

\* A faulty variant of the second step of move_task_to_project_and_section,
\* which creates the section it does not find and moves the task into it.
resume_sec_get_sections_creating(w, p, po, outs, ro) ==
    IF p.res.st = "e429"
    THEN LET h == except_429(Got429(w, "get_sections", p.res.hdr),
                             E429(p.res.hdr))
         IN  pms_except(h.w, p, h.e)
    ELSE IF p.res.st = "ok"
    THEN LET w1 == Call(Call(w, "add_section", TRUE, p.target),
                        "item_move", TRUE, p.target)
         IN  Done([w1 EXCEPT !.tasks[p.task_id].project_id = p.target,
                             !.tasks[p.task_id].section =
                                 SectionPrefix(p.move_type)], p)
    ELSE Done(w, p)

\* get_section_id (lines 249-258) and move_task_to_project_and_section (lines
\* 287-308), resumed with the answer of get_sections.
resume_sec_get_sections(w, p, po, outs, ro) ==
    IF p.res.st = "e429"
    THEN LET h == except_429(Got429(w, "get_sections", p.res.hdr),
                             E429(p.res.hdr))
         IN  pms_except(h.w, p, h.e)
    ELSE IF p.res.st = "ok"
            /\ (IF p.move_type = "move/immediate" THEN p.secs.immediate
                ELSE p.secs.parallel)
    THEN LET w1 == Call(w, "item_move", TRUE, p.target) IN
         IF po = "200"
         THEN Done([w1 EXCEPT !.tasks[p.task_id].project_id = p.target,
                              !.tasks[p.task_id].section =
                                  SectionPrefix(p.move_type)], p)
         ELSE pms_loop(IF po = "429" THEN Got429(w1, "item_move", NoHdr)
                       ELSE w1,
                       p, after_failed_move(p.idx), outs, ro)
    ELSE \* no such section, or get_section_id returned None on an error
         Done(w, p)

\* move_task_to_project_inbox, lines 178-205, with the inbox section's id.
inbox_post(w, p, po, outs, ro) ==
    LET w1 == Call(w, "item_move", TRUE, p.target) IN
    IF po = "200"
    THEN Done([w1 EXCEPT !.tasks[p.task_id].project_id = p.target,
                         !.tasks[p.task_id].section = "Inbox *"], p)
    ELSE pms_loop(IF po = "429" THEN Got429(w1, "item_move", NoHdr) ELSE w1,
                  p, after_failed_move(p.idx), outs, ro)

\* get_or_create_inbox_section, lines 136-148, resumed with the answer of
\* get_sections.
resume_inbox_get_sections(w, p, po, outs, ro) ==
    IF p.res.st = "e429"
    THEN LET h == except_429(Got429(w, "get_sections", p.res.hdr),
                             E429(p.res.hdr))
         IN  pms_except(h.w, p, h.e)
    ELSE IF p.res.st = "err"
    THEN \* returns None: move_task_to_project_inbox returns False (line 180)
         pms_loop(w, p, after_failed_move(p.idx), outs, ro)
    ELSE IF p.secs.inbox > 0 THEN inbox_post(w, p, po, outs, ro)
    ELSE R(Call(IF ro.st = "ok"
                THEN [w EXCEPT !.secs[p.target].inbox = @ + 1] ELSE w,
                "add_section", TRUE, p.target),
           [p EXCEPT !.pc = "inbox_add_section", !.res = ro])

\* get_or_create_inbox_section, lines 141-148, resumed with the answer of
\* add_section.
resume_inbox_add_section(w, p, po, outs, ro) ==
    IF p.res.st = "e429"
    THEN LET h == except_429(Got429(w, "add_section", p.res.hdr),
                             E429(p.res.hdr))
         IN  pms_except(h.w, p, h.e)
    ELSE IF p.res.st = "err"
    THEN pms_loop(w, p, after_failed_move(p.idx), outs, ro)
    ELSE inbox_post(w, p, po, outs, ro)

\* ------------------------------------------------------------ process_task
\* process_task, lines 346-349, and get_section_name, lines 120-123.
process_task_start(w, p, ro) ==
    LET c == Check(w) IN
    IF c.raised THEN pt_except(c.w, p, HTTPExc)
    ELSE R(Call(c.w, "get_section", FALSE, ""),
           [p EXCEPT !.pc = "get_section", !.res = ro,
                     !.section_name = IF ro.st = "ok" THEN p.section_id
                                      ELSE None])

\* get_section_name, lines 124-130, and process_task, line 350.
resume_get_section(w, p, ro) ==
    IF p.res.st = "e429"
    THEN gsn_except(Got429(w, "get_section", p.res.hdr), p, E429(p.res.hdr))
    ELSE IF p.res.st = "err" THEN gsn_except(w, p, ApiErr)
    ELSE R(Call(w, "get_task", FALSE, ""),
           [p EXCEPT !.pc = "get_task", !.res = ro,
                     !.labels = w.tasks[p.task_id].labels,
                     !.due = w.tasks[p.task_id].due])

\* A faulty variant of the branch: a section name of no table is treated as
\* "Due Today".
pt_branch_today(name, labels, due) ==
    IF name \in DOMAIN SECTION_TO_LABEL_MAPPING
    THEN IF SECTION_TO_LABEL_MAPPING[name] \in MoveTypes THEN "move"
         ELSE IF ~InSeq(SECTION_TO_LABEL_MAPPING[name], labels) THEN "label"
         ELSE "skip"
    ELSE IF name \in DOMAIN DUE_TIME_SECTIONS
            /\ (due = NoDue \/ due.string # DUE_TIME_SECTIONS[name])
    THEN "due_time"
    ELSE IF name # None /\ name \in InboxPrefixed /\ due # NoDue
    THEN "remove_due"
    ELSE IF name \in InboxPrefixed THEN "skip"
    ELSE "today"

\* A faulty variant of the branch, which clears the due date of every task in
\* the staging section, with or without a due date.
pt_branch_clearing(name, labels, due) ==
    IF name \in DOMAIN SECTION_TO_LABEL_MAPPING
    THEN IF SECTION_TO_LABEL_MAPPING[name] \in MoveTypes THEN "move"
         ELSE IF ~InSeq(SECTION_TO_LABEL_MAPPING[name], labels) THEN "label"
         ELSE "skip"
    ELSE IF name = "Due Today" /\ (due = NoDue \/ ~due.today) THEN "today"
    ELSE IF name \in DOMAIN DUE_TIME_SECTIONS
            /\ (due = NoDue \/ due.string # DUE_TIME_SECTIONS[name])
    THEN "due_time"
    ELSE IF name # None /\ name \in InboxPrefixed
    THEN "remove_due"
    ELSE "skip"

\* The branch of process_task (lines 352-375) taken for a section name and
\* the task read at line 350.
pt_branch(name, labels, due) ==
    IF name \in DOMAIN SECTION_TO_LABEL_MAPPING
    THEN IF SECTION_TO_LABEL_MAPPING[name] \in MoveTypes THEN "move"
         ELSE IF ~InSeq(SECTION_TO_LABEL_MAPPING[name], labels) THEN "label"
         ELSE "skip"
    ELSE IF name = "Due Today" /\ (due = NoDue \/ ~due.today) THEN "today"
    ELSE IF name \in DOMAIN DUE_TIME_SECTIONS
            /\ (due = NoDue \/ due.string # DUE_TIME_SECTIONS[name])
    THEN "due_time"
    ELSE IF name # None /\ name \in InboxPrefixed /\ due # NoDue
    THEN "remove_due"
    ELSE "skip"

\* process_task, lines 352-381, resumed with the answer of get_task.
resume_get_task(w, p, ro, uo, po) ==
    IF p.res.st = "e429"
    THEN pt_except(Got429(w, "get_task", p.res.hdr), p, E429(p.res.hdr))
    ELSE IF p.res.st = "err" THEN pt_except(w, p, ApiErr)
    ELSE LET b == pt_branch(p.section_name, p.labels, p.due) IN
         IF b = "move"
         THEN process_move_section(w,
                 [p EXCEPT !.move_type = SECTION_TO_LABEL_MAPPING[p.section_name]],
                 ro)
         ELSE IF b = "label"
         THEN add_label_start(w,
                 [p EXCEPT !.label = SECTION_TO_LABEL_MAPPING[p.section_name]],
                 ro)
         ELSE IF b = "today" THEN set_due_date(w, p, "today", uo)
         ELSE IF b = "due_time"
         THEN set_due_date(w, p, DUE_TIME_SECTIONS[p.section_name], uo)
         ELSE IF b = "remove_due" THEN remove_due_date(w, p, po)
         ELSE Done(w, p)

\* ------------------------------------------- the background steps (org)
\* A step of coroutine p with result r: the globals, the external system and
\* the coroutine it leaves; the history of its calls.
Apply(p, r) ==
    /\ rate_limited' = r.w.rl
    /\ rate_limit_reset_time' = r.w.rt
    /\ tasks' = r.w.tasks
    /\ sections' = r.w.secs
    /\ procs' = [procs EXCEPT ![p] =
          [r.p EXCEPT
             !.mutated = @ \/ \E i \in 1..Len(r.w.calls) : r.w.calls[i].mut,
             !.moved = @ \cup {r.w.calls[i].project :
                                 i \in {j \in 1..Len(r.w.calls) :
                                          r.w.calls[j].op = "item_move"}},
             !.writes = @ + Cardinality({i \in 1..Len(r.w.calls) :
                                           r.w.calls[i].op = "update_task"})]]
    /\ ev' = [type |-> "bg", proc |-> p, t |-> now, calls |-> r.w.calls,
              pre |-> tasks[procs[p].task_id],
              got429 |-> r.w.got429, checks |-> r.w.checks]
    /\ UNCHANGED <<app, now, processed_tasks, cl_processed_tasks, hist>>

\* The answers a step can depend on: all of them where the step issues the
\* call, and one otherwise.
Ok == [st |-> "ok", hdr |-> NoHdr]
RestIf(cond) == IF cond THEN RestOutcomes ELSE {Ok}
UpdIf(cond) == IF cond THEN UpdOutcomes ELSE {Ok}
PostIf(cond) == IF cond THEN PostOutcomes ELSE {"200"}
Answered(p) == procs[p].res.st = "ok"

\* The answers to the item_move requests of line 278, one per label the loop
\* can still reach (those before it, and those of no project, get "200").
Scripts(p) ==
    {f \in [1..Len(procs[p].labels) -> PostOutcomes] :
        \A i \in 1..Len(procs[p].labels) :
           (\/ ~Answered(p)
            \/ procs[p].move_type = "move/inbox"
            \/ i <= procs[p].idx
            \/ procs[p].labels[i] \notin DOMAIN LABEL_TO_PROJECT_MAPPING)
           => f[i] = "200"}

OrgStart(p) ==
    /\ app = "org" /\ procs[p].pc = "scheduled"
    /\ procs[p].job = "process_task"
    /\ \E ro \in RestOutcomes : Apply(p, process_task_start(World, procs[p], ro))

OrgGetSection(p) ==
    /\ app = "org" /\ procs[p].pc = "get_section"
    /\ \E ro \in RestOutcomes : Apply(p, resume_get_section(World, procs[p], ro))

OrgGetTask(p) ==
    /\ app = "org" /\ procs[p].pc = "get_task"
    /\ LET b == IF Answered(p)
                THEN pt_branch(procs[p].section_name, procs[p].labels,
                               procs[p].due)
                ELSE "none"
       IN  \E ro \in RestIf(b \in {"move", "label"}),
              uo \in UpdIf(b \in {"today", "due_time"}),
              po \in PostIf(b = "remove_due") :
                Apply(p, resume_get_task(World, procs[p], ro, uo, po))

OrgPmsGetTask(p) ==
    /\ app = "org" /\ procs[p].pc = "pms_get_task"
    /\ \E ro \in RestIf(Answered(p)), outs \in Scripts(p) :
          Apply(p, resume_pms_get_task(World, procs[p], outs, ro))

OrgSecGetSections(p) ==
    /\ app = "org" /\ procs[p].pc = "sec_get_sections"
    /\ \E ro \in RestIf(Answered(p)), po \in PostIf(Answered(p)),
          outs \in Scripts(p) :
             Apply(p, resume_sec_get_sections(World, procs[p], po, outs, ro))

OrgInboxGetSections(p) ==
    /\ app = "org" /\ procs[p].pc = "inbox_get_sections"
    /\ \E ro \in RestIf(Answered(p)), po \in PostIf(Answered(p)),
          outs \in Scripts(p) :
             Apply(p, resume_inbox_get_sections(World, procs[p], po, outs, ro))

OrgInboxAddSection(p) ==
    /\ app = "org" /\ procs[p].pc = "inbox_add_section"
    /\ \E ro \in RestIf(Answered(p)), po \in PostIf(Answered(p)),
          outs \in Scripts(p) :
             Apply(p, resume_inbox_add_section(World, procs[p], po, outs, ro))

OrgAlGetTask(p) ==
    /\ app = "org" /\ procs[p].pc = "al_get_task"
    /\ \E ro \in RestIf(Answered(p) /\ procs[p].job = "add_label_x2"
                         /\ procs[p].round = 1),
          uo \in UpdIf(Answered(p)
                       /\ al_must_write(procs[p].labels, procs[p].label)) :
             Apply(p, resume_al_get_task(World, procs[p], uo, ro))

\* A caller that calls add_label_to_task(task_id, label) twice in sequence:
\* its first call.
OrgCallAddLabel(p) ==
    /\ app = "org" /\ procs[p].pc = "scheduled"
    /\ procs[p].job = "add_label_x2"
    /\ \E ro \in RestOutcomes :
          Apply(p, add_label_start(World, [procs[p] EXCEPT !.round = 1], ro))

\* --------------------------------------------------- context_labeler.py
\* The synctodoist calls are synchronous: a background process_task runs
\* without suspension.  api is the request's own TodoistAPI, synced when the
\* request arrived (get_todoist_api): api.get_task returns the request's copy
\* of the task (the coroutine's labels, due, project_id, section_id), which
\* the functions modify in place before they commit.
\* An operation succeeds ("ok"), raises before it changed anything
\* ("fail_read") or raises in api.commit() ("fail_commit").
ClOutcomes == {"ok", "fail_read", "fail_commit"}

\* Cap of a task's label list (context_labeler appends without a check).
MaxLabels == 3

Ret(w, p, ret) == [w |-> w, p |-> p, ret |-> ret]

\* context_labeler.add_label_to_task, line 99.
cl_new_labels(labels, label) ==
    IF Len(labels) > 0 THEN labels \o <<label>> ELSE <<label>>

\* context_labeler.add_label_to_task, lines 96-107.
cl_add_label_to_task(w, p, label, o) ==
    IF o = "fail_read" THEN Ret(w, p, FALSE)
    ELSE LET q == [p EXCEPT !.labels = cl_new_labels(p.labels, label)]
             w1 == Call(w, "update_task", TRUE, "")
         IN  IF o = "ok"
             THEN Ret([w1 EXCEPT !.tasks[p.task_id].labels = q.labels], q, TRUE)
             ELSE Ret(w1, q, FALSE)

\* context_labeler.move_task_to_project, lines 174-186.
cl_move_task_to_project(w, p, target, o) ==
    IF o = "fail_read" THEN Ret(w, p, FALSE)
    ELSE LET w1 == Call(w, "item_move", TRUE, target) IN
         IF o = "ok"
         THEN Ret([w1 EXCEPT !.tasks[p.task_id].project_id = target,
                             !.tasks[p.task_id].section = NoSection],
                  [p EXCEPT !.project_id = target, !.section_id = NoSection],
                  TRUE)
         ELSE Ret(w1, p, FALSE)

\* context_labeler.set_due_date, lines 109-160, for the due strings of
\* CL_DUE_TIME_SECTIONS and "today".
cl_set_due_date(w, p, due_string, o) ==
    IF o = "fail_read" THEN Ret(w, p, FALSE)
    ELSE LET d == [string |-> due_string, today |-> TRUE]
             q == [p EXCEPT !.due = d]
             w1 == Call(w, "update_task", TRUE, "")
         IN  IF o = "ok"
             THEN Ret([w1 EXCEPT !.tasks[p.task_id].due = d], q, TRUE)
             ELSE Ret(w1, q, FALSE)

\* context_labeler.set_reminder, lines 71-90.
cl_set_reminder(w, p, o) ==
    IF o = "fail_read" THEN Ret(w, p, FALSE)
    ELSE IF p.due # NoDue
    THEN LET w1 == Call(w, "add_reminder", TRUE, "") IN
         IF o = "ok"
         THEN Ret([w1 EXCEPT !.tasks[p.task_id].reminder = TRUE], p, TRUE)
         ELSE Ret(w1, p, FALSE)
    ELSE Ret(w, p, FALSE)

\* A faulty variant of process_context_label, which adds the label whether
\* or not the move succeeded.
cl_process_context_label_labelling(w, p, name, o) ==
    IF name \in DOMAIN CL_SECTION_TO_LABEL_MAPPING
    THEN LET label == CL_SECTION_TO_LABEL_MAPPING[name]
             m == cl_move_task_to_project(w, p,
                     LABEL_TO_PROJECT_MAPPING[label], o["move"])
             a == cl_add_label_to_task(m.w, m.p, label, o["label"])
         IN  Ret(a.w, a.p, TRUE)
    ELSE Ret(w, p, FALSE)

\* context_labeler.process_context_label, lines 215-226, given the section
\* name.
cl_process_context_label(w, p, name, o) ==
    IF name \in DOMAIN CL_SECTION_TO_LABEL_MAPPING
    THEN LET label == CL_SECTION_TO_LABEL_MAPPING[name] IN
         IF label \in DOMAIN LABEL_TO_PROJECT_MAPPING
         THEN LET m == cl_move_task_to_project(w, p,
                          LABEL_TO_PROJECT_MAPPING[label], o["move"])
              IN  IF m.ret
                  THEN LET a == cl_add_label_to_task(m.w, m.p, label, o["label"])
                       IN  Ret(a.w, a.p, TRUE)
                  ELSE Ret(m.w, m.p, TRUE)
         ELSE Ret(w, p, FALSE)
    ELSE Ret(w, p, FALSE)

\* A variant of the test of line 189 that looks at the section only.
cl_out_of_scope_any_project(project_id, section_id) ==
    section_id = NoSection

\* Whether process_task leaves at line 190.
cl_out_of_scope(project_id, section_id) ==
    project_id # INBOX_PROJECT_ID \/ section_id = NoSection

\* context_labeler.process_task, lines 188-213.  s is the answers of the two
\* get_section_name calls, o those of the operations.
cl_process_task(w, p, s, o) ==
    IF cl_out_of_scope(p.project_id, p.section_id) THEN Done(w, p)
    ELSE IF s["sec1"] = "raise" THEN Raised(w, p, ApiErr)
    ELSE LET c == cl_process_context_label(w, p, p.section_id, o) IN
         IF c.ret THEN Done(c.w, c.p)
         ELSE IF s["sec2"] = "raise" THEN Raised(c.w, c.p, ApiErr)
         ELSE LET name == p.section_id IN
              IF name \in DOMAIN CL_DUE_TIME_SECTIONS
              THEN LET d == cl_set_due_date(c.w, c.p,
                                CL_DUE_TIME_SECTIONS[name], o["due"])
                   IN  IF name = "In 1 hour"
                       THEN LET r == cl_set_reminder(d.w, d.p, o["rem"])
                            IN  Done(r.w, r.p)
                       ELSE Done(d.w, d.p)
              ELSE IF name = "Due Today"
              THEN LET d == cl_set_due_date(c.w, c.p, "today", o["due"])
                   IN  Done(d.w, d.p)
              ELSE Done(c.w, c.p)

\* The answers a run of process_task can depend on (the others are "ok").
ClUsed(p) ==
    LET name == procs[p].section_id IN
    IF cl_out_of_scope(procs[p].project_id, procs[p].section_id) THEN {}
    ELSE {"sec1"}
         \cup (IF name \in DOMAIN CL_SECTION_TO_LABEL_MAPPING
               THEN {"move", "label"} ELSE {"sec2"})
         \cup (IF name \in DOMAIN CL_DUE_TIME_SECTIONS \/ name = "Due Today"
               THEN {"due"} ELSE {})
         \cup (IF name = "In 1 hour" THEN {"rem"} ELSE {})

SecIf(p, k) == IF k \in ClUsed(p) THEN {"ok", "raise"} ELSE {"ok"}
OpIf(p, k) == IF k \in ClUsed(p) THEN ClOutcomes ELSE {"ok"}

ClProcessTask(p) ==
    /\ app = "ctx" /\ procs[p].pc = "scheduled"
    /\ procs[p].job = "process_task"
    /\ Len(tasks[procs[p].task_id].labels) < MaxLabels
    /\ Len(procs[p].labels) < MaxLabels
    /\ \E s1 \in SecIf(p, "sec1"), s2 \in SecIf(p, "sec2"),
          m \in OpIf(p, "move"), l \in OpIf(p, "label"),
          d \in OpIf(p, "due"), r \in OpIf(p, "rem") :
             Apply(p, cl_process_task(World, procs[p],
                         [sec1 |-> s1, sec2 |-> s2],
                         [move |-> m, label |-> l, due |-> d, rem |-> r]))

\* A caller that calls add_label_to_task(api, task_id, label) twice in
\* sequence with the same api: one call per step.
ClCallAddLabel(p) ==
    /\ app = "ctx" /\ procs[p].pc = "scheduled"
    /\ procs[p].job = "add_label_x2"
    /\ \E o \in ClOutcomes :
          LET q == procs[p]
              a == cl_add_label_to_task(World,
                      [q EXCEPT !.before = IF q.round = 1 THEN q.labels ELSE @],
                      q.label, o)
              rt == IF a.ret THEN "True" ELSE "False"
          IN  IF q.round = 1
              THEN Apply(p, R(a.w, [a.p EXCEPT !.round = 2, !.ret1 = rt,
                                               !.after1 = a.w.tasks[q.task_id].labels,
                                               !.writes1 = Len(a.w.calls)]))
              ELSE Apply(p, Done(a.w, [a.p EXCEPT !.ret = rt]))

\* ------------------------------------------------------- initial states
Task(labels, due, project_id, section) ==
    [labels |-> labels, due |-> due, project_id |-> project_id,
     section |-> section, reminder |-> FALSE]

InitBase ==
    /\ now = StartTime
    /\ rate_limited = FALSE
    /\ rate_limit_reset_time = 0
    /\ processed_tasks = [id \in TaskIds |-> [timestamp |-> 0, count |-> 0]]
    /\ cl_processed_tasks = [id \in {} |-> 0]
    /\ hist = [id \in TaskIds |-> [seen |-> FALSE, t |-> 0, n |-> 0]]
    /\ procs = [p \in Slots |-> Idle]
    /\ ev = [type |-> "init"]

\* --------------------------------------------------------------- SpecDedup
\* The webhook handlers of both programs, and the background actions they
\* schedule, under a clock that stops on both sides of each window.  The
\* organizer receives the events of task t1, with an empty section id or in
\* a section no table knows; the context labeler those of t1 (in such a
\* section) and of t2 (in none).
DedupSections == {NoSection, "Someday"}

InitDedup ==
    /\ InitBase
    /\ app \in {"org", "ctx"}
    /\ tasks = [id \in TaskIds |->
                  Task(<<>>, NoDue, INBOX_PROJECT_ID,
                       IF id = "t1" THEN "Someday" ELSE NoSection)]
    /\ sections = [pr \in Projects |-> NoSecs]

OrgEvent(ids, secs) ==
    \E name \in EventNames, id \in ids, sec \in secs :
        todoist_webhook(name, id, INBOX_PROJECT_ID, sec)

ClEvent ==
    \E name \in EventNames, id \in TaskIds, sync_ok, fetch_ok \in BOOLEAN :
        /\ ~sync_ok => fetch_ok
        /\ cl_todoist_webhook(name, id, sync_ok, fetch_ok)

NextDedup ==
    \/ Tick(IF app = "org" THEN OrgOffsets ELSE ClOffsets)
    \/ OrgEvent({"t1"}, DedupSections)
    \/ ClEvent
    \/ \E p \in Slots : OrgStart(p)
    \/ \E p \in Slots : OrgGetSection(p)
    \/ \E p \in Slots : OrgGetTask(p)
    \/ \E p \in Slots : ClProcessTask(p)

SpecDedup == InitDedup /\ [][NextDedup]_vars

\* The dedup window of the program that runs, and the timestamp its cache
\* holds for a task id (0: none).
Window == IF app = "org" THEN DEDUPLICATION_WINDOW ELSE CL_DEDUP_WINDOW
Recorded(id) ==
    IF app = "org" THEN processed_tasks[id].timestamp
    ELSE IF id \in DOMAIN cl_processed_tasks THEN cl_processed_tasks[id] ELSE 0

\* The last step handled an item:added / item:updated event that reached the
\* dedup check.
DedupStep == ev.type = "webhook" /\ ev.item /\ ev.reached

C2_SuppressedKeepsWindow ==
    DedupStep =>
       /\ ev.skipped =>
             /\ Recorded(ev.id) = ev.old_ts
             /\ app = "org" =>
                   processed_tasks[ev.id].count = ev.old_count + 1
       /\ (ev.prev.seen /\ ev.prev.n > 0 /\ ev.t - ev.prev.t >= Window) =>
             ~ev.skipped /\ hist[ev.id].t = ev.t

C2_Witness ==
    /\ DedupStep /\ ev.prev.seen /\ ev.prev.n > 0
    /\ ev.t - ev.prev.t >= Window /\ ~ev.skipped

C20_RateLimitedNotRecorded ==
    (ev.type = "webhook" /\ ev.answer = "rate limited") =>
       /\ processed_tasks[ev.id].timestamp = ev.old_ts
       /\ processed_tasks[ev.id].count = ev.old_count

\* C26: in the context labeler, an event whose task the handler fails to
\* fetch is abandoned without side effects: it is answered "ok", no
\* background action is scheduled, and the dedup cache is left unchanged, so
\* that no later event of the task id is suppressed because of it.
C26_FailedFetchLeavesNoTrace ==
    [][(/\ app = "ctx" /\ ev'.type = "webhook" /\ ev'.item
        /\ ~ev'.reached /\ ev'.issued = <<"sync", "get_task">>) =>
          /\ ev'.answer = "ok" /\ ~ev'.scheduled
          /\ UNCHANGED <<cl_processed_tasks, procs, tasks>>]_vars

C26_Witness ==
    /\ app = "ctx" /\ ev.type = "webhook" /\ ev.item /\ ~ev.reached
    /\ ev.issued = <<"sync", "get_task">> /\ ev.answer = "ok"
    /\ ev.id \notin DOMAIN cl_processed_tasks
    /\ \E id \in DOMAIN cl_processed_tasks : id # ev.id

\* C11: an event whose event_name is neither "item:added" nor "item:updated"
\* is answered "ok" and changes nothing: no background action is scheduled,
\* no external call is issued, and the dedup caches and the rate-limit guard
\* are left as they were.
C11_OtherEventsChangeNothing ==
    [][(ev'.type = "webhook" /\ ~ev'.item) =>
          /\ ev'.answer = "ok"
          /\ ~ev'.scheduled
          /\ ev'.issued = <<>>
          /\ UNCHANGED <<processed_tasks, cl_processed_tasks, rate_limited,
                         rate_limit_reset_time, procs>>]_vars

\* --------------------------------------------------------------- SpecLabel
\* A caller that calls add_label_to_task twice in sequence with the same
\* label, in either program, on a task that carries any of LabelLists.
LabelLists == {<<>>, <<"urgent">>, <<"context/work">>,
               <<"urgent", "context/home">>}
NewLabels == {"context/work", "context/home"}

InitLabel ==
    /\ InitBase
    /\ app \in {"org", "ctx"}
    /\ \E ls \in LabelLists :
          tasks = [id \in TaskIds |->
                     Task(IF id = "t1" THEN ls ELSE <<>>, NoDue,
                          INBOX_PROJECT_ID, NoSection)]
    /\ sections = [pr \in Projects |-> NoSecs]

\* The caller starts: it occupies the first coroutine.
CallTwice ==
    /\ ev.type = "init"
    /\ \E label \in NewLabels :
          procs' = [procs EXCEPT ![1] =
                      [Scheduled("t1", INBOX_PROJECT_ID, NoSection) EXCEPT
                          !.job = "add_label_x2", !.round = 1,
                          !.label = label, !.labels = tasks["t1"].labels]]
    /\ ev' = [type |-> "call"]
    /\ UNCHANGED <<app, now, rate_limited, rate_limit_reset_time,
                   processed_tasks, cl_processed_tasks, tasks, sections, hist>>

NextLabel ==
    \/ CallTwice
    \/ \E p \in Slots : OrgCallAddLabel(p)
    \/ \E p \in Slots : OrgAlGetTask(p)
    \/ \E p \in Slots : ClCallAddLabel(p)

SpecLabel == InitLabel /\ [][NextLabel]_vars

\* The first of the two calls returned (ret1), and the label was absent from
\* the task's labels before it.
FirstReturned(q) == q.job = "add_label_x2" /\ q.round = 2
AddedAbsent(q) == FirstReturned(q) /\ ~InSeq(q.label, q.before)

\* C3: add_label is idempotent: when add_label_to_task is called twice in
\* sequence with the same label (the first call having succeeded), the
\* labels after the second call equal those after the first, and the second
\* call issues no update_task write.
C3_AddLabelIdempotent ==
    \A p \in Slots :
       (FirstReturned(procs[p]) /\ procs[p].pc = "done"
        /\ procs[p].ret1 = "True") =>
          /\ tasks[procs[p].task_id].labels = procs[p].after1
          /\ procs[p].writes = procs[p].writes1

\* C4: a call that adds a label the task does not carry writes at most once
\* and loses no label; when it succeeds it wrote exactly once, and the
\* task's labels are the labels it carried followed by the new label.
C4_AddAbsentLabel ==
    \A p \in Slots :
       AddedAbsent(procs[p]) =>
          /\ procs[p].writes1 <= 1
          /\ \A i \in 1..Len(procs[p].before) :
                InSeq(procs[p].before[i], procs[p].after1)
          /\ procs[p].ret1 = "True" =>
                /\ procs[p].writes1 = 1
                /\ procs[p].after1 = procs[p].before \o <<procs[p].label>>

C4_Witness ==
    \E p \in Slots :
       /\ AddedAbsent(procs[p]) /\ procs[p].ret1 = "True"
       /\ Len(procs[p].before) > 0 /\ procs[p].writes1 = 1

\* ---------------------------------------------------------------- SpecTask
\* One event for task t1, in either program, and the background action it
\* schedules, for every placement of the task, several label lists, with and
\* without a due date, in projects with and without the sections a move
\* looks for.
OrgTaskSections == {"Work", "Move to Immediate", "Move to Parallel",
                    "Move to project Inbox", "Due Today", "Due 9am",
                    "Inbox *", "Inbox * triage", "Someday"}
ClTaskSections == {"Work", "Due 9am", "In 1 hour", "Due Today", "Someday",
                   "Move to Immediate"}
TaskLabelLists == {<<>>, <<"context/work">>, <<"urgent", "context/home">>,
                   <<"context/work", "context/home">>, <<"later">>}
SomeDue == [string |-> "at 5pm", today |-> TRUE]
AllSecs == [inbox |-> 1, immediate |-> TRUE, parallel |-> TRUE]

InitTask ==
    /\ InitBase
    /\ app \in {"org", "ctx"}
    /\ \E sec \in IF app = "org" THEN OrgTaskSections ELSE ClTaskSections,
          ls \in TaskLabelLists, due \in {NoDue, SomeDue} :
          tasks = [id \in TaskIds |->
                     IF id = "t1" THEN Task(ls, due, INBOX_PROJECT_ID, sec)
                     ELSE Task(<<>>, NoDue, INBOX_PROJECT_ID, NoSection)]
    /\ \E ss \in {NoSecs, AllSecs} : sections = [pr \in Projects |-> ss]

\* The one event: Todoist reports t1 with the section it sits in.
OneOrgEvent ==
    /\ ev.type = "init"
    /\ \E name \in EventNames :
          todoist_webhook(name, "t1", INBOX_PROJECT_ID, tasks["t1"].section)

OneClEvent ==
    /\ ev.type = "init"
    /\ \E name \in EventNames, fetch_ok \in BOOLEAN :
          cl_todoist_webhook(name, "t1", TRUE, fetch_ok)

OrgBackground(p) ==
    \/ OrgStart(p)
    \/ OrgGetSection(p)
    \/ OrgGetTask(p)
    \/ OrgAlGetTask(p)
    \/ OrgPmsGetTask(p)
    \/ OrgSecGetSections(p)
    \/ OrgInboxGetSections(p)
    \/ OrgInboxAddSection(p)

NextTask ==
    \/ OneOrgEvent
    \/ OneClEvent
    \/ \E p \in Slots : OrgBackground(p)
    \/ \E p \in Slots : ClProcessTask(p)

SpecTask == InitTask /\ [][NextTask]_vars

\* The section names the tables of the running program know.
KnownSections ==
    IF app = "org"
    THEN DOMAIN SECTION_TO_LABEL_MAPPING \cup DOMAIN DUE_TIME_SECTIONS
         \cup {"Due Today"} \cup InboxPrefixed
    ELSE DOMAIN CL_SECTION_TO_LABEL_MAPPING \cup DOMAIN CL_DUE_TIME_SECTIONS
         \cup {"Due Today"}

\* Coroutine p runs (or ran) process_task for a task in a section.
Processing(p) ==
    /\ procs[p].pc # "idle" /\ procs[p].job = "process_task"
    /\ procs[p].section_id # NoSection

\* C5: process_task for a task whose section name is in no mapping table
\* issues no mutating call to the external API.
C5_UnknownSectionNoMutation ==
    \A p \in Slots :
       (Processing(p) /\ procs[p].section_id \notin KnownSections) =>
          /\ ~procs[p].mutated
          /\ (ev.type = "bg" /\ ev.proc = p) =>
                \A i \in 1..Len(ev.calls) : ~ev.calls[i].mut

C5_Witness ==
    \E p \in Slots :
       /\ Processing(p) /\ procs[p].section_id \notin KnownSections
       /\ procs[p].pc = "done" /\ app = "org"
       /\ ev.type = "bg" /\ Len(ev.calls) = 0

\* The first label of ls that LABEL_TO_PROJECT_MAPPING knows (0: none).
FirstMatching(ls) ==
    IF \E i \in 1..Len(ls) : ls[i] \in DOMAIN LABEL_TO_PROJECT_MAPPING
    THEN CHOOSE i \in 1..Len(ls) :
            /\ ls[i] \in DOMAIN LABEL_TO_PROJECT_MAPPING
            /\ \A j \in 1..(i - 1) : ls[j] \notin DOMAIN LABEL_TO_PROJECT_MAPPING
    ELSE 0

\* C6: first matching label wins: the item_move requests of
\* process_move_section go only to the project of the first label of the
\* task that LABEL_TO_PROJECT_MAPPING knows, whatever their outcome.
C6_FirstMatchingLabelWins ==
    \A p \in Slots :
       (Processing(p) /\ procs[p].move_type \in MoveTypes
        /\ FirstMatching(procs[p].labels) > 0) =>
          procs[p].moved \subseteq
             {LABEL_TO_PROJECT_MAPPING[
                 procs[p].labels[FirstMatching(procs[p].labels)]]}

\* C9: every 429 answer to an outbound call of the organizer leaves the
\* guard set, with the reset time the answer advertises, or now + 60 s.
C9_Every429SetsGuard ==
    (app = "org" /\ ev.type = "bg") =>
       \A i \in 1..Len(ev.got429) :
          /\ rate_limited
          /\ rate_limit_reset_time = reset_time_of(ev.got429[i].hdr, ev.t)

\* C12: every error an external call raises during a background action is
\* caught inside it: process_task returns normally, no exception leaves the
\* background task, and a step of the background action leaves the dedup
\* caches unchanged.
C12_ErrorsCaughtInBackground ==
    [][ev'.type = "bg" =>
          /\ procs'[ev'.proc].pc # "raised"
          /\ UNCHANGED <<processed_tasks, cl_processed_tasks>>]_vars

\* C14: deferral rule.  When the background action of an event has run for a
\* task that carries the label "later", the task sits in the section "Later"
\* of the project it was in, its due date is cleared and the label "later" is
\* removed, and no rule driven by its section has fired (no other label
\* write, no move to another project).
C14_DeferralRule ==
    \A p \in Slots :
       (procs[p].pc = "done" /\ procs[p].job = "process_task"
        /\ InSeq("later", procs[p].labels)) =>
          LET task == tasks[procs[p].task_id] IN
          /\ task.section = "Later"
          /\ task.project_id = procs[p].project_id
          /\ task.due = NoDue
          /\ ~InSeq("later", task.labels)
          /\ procs[p].moved = {}

\* C15: for a task in the staging section (name starting with "Inbox *"),
\* when the task read by process_task has a due date, process_task issues the
\* one request that clears it, and the task has no due date once the request
\* succeeded; when it has none, process_task issues no write at all.
C15_StagingSectionClearsDue ==
    \A p \in Slots :
       (app = "org" /\ Processing(p) /\ procs[p].pc = "done"
        /\ procs[p].section_name \in InboxPrefixed
        /\ ev.type = "bg" /\ ev.proc = p) =>
          IF procs[p].due # NoDue
          THEN /\ Len(ev.calls) = 1 /\ ev.calls[1].op = "item_update"
               /\ procs[p].ret \in {"True", "False"}
               /\ procs[p].ret = "True" => tasks[procs[p].task_id].due = NoDue
               /\ procs[p].writes = 0 /\ procs[p].moved = {}
          ELSE /\ ~procs[p].mutated
               /\ \A i \in 1..Len(ev.calls) : ~ev.calls[i].mut

C15_Witness ==
    \E p \in Slots :
       /\ app = "org" /\ Processing(p) /\ procs[p].pc = "done"
       /\ procs[p].section_name = "Inbox * triage"
       /\ procs[p].due # NoDue /\ procs[p].ret = "True"
       /\ tasks[procs[p].task_id].due = NoDue

\* C16: a reminder is never added to a task that has no due date: whenever
\* the context labeler's background action calls add_reminder, the task has a
\* due date in the external system, also when the set_due_date before it
\* failed.
C16_ReminderNeedsDueDate ==
    (app = "ctx" /\ ev.type = "bg") =>
       \A i \in 1..Len(ev.calls) :
          ev.calls[i].op = "add_reminder" =>
             tasks[procs[ev.proc].task_id].due # NoDue

\* C23: in the context labeler, context resolution is move-then-label.  For
\* a task of the Inbox project in a context-mapped section, process_task
\* first issues the move to the label's project and writes the label only
\* after it, and only when the move succeeded; when the move fails no label
\* is written; in both cases nothing else is issued (no due-date write, no
\* reminder).
C23_MoveThenLabel ==
    (/\ app = "ctx" /\ ev.type = "bg"
     /\ ev.pre.project_id = INBOX_PROJECT_ID
     /\ ev.pre.section \in DOMAIN CL_SECTION_TO_LABEL_MAPPING) =>
       LET task == tasks[procs[ev.proc].task_id]
           target == LABEL_TO_PROJECT_MAPPING[
                        CL_SECTION_TO_LABEL_MAPPING[ev.pre.section]]
           ops == [i \in 1..Len(ev.calls) |-> ev.calls[i].op]
       IN  /\ ops \in {<<>>, <<"item_move">>, <<"item_move", "update_task">>}
           /\ Len(ops) > 0 => ev.calls[1].project = target
           /\ Len(ops) = 2 => task.project_id = target
           /\ task.project_id # target => task.labels = ev.pre.labels
           /\ task.due = ev.pre.due /\ ~task.reminder

C23_Witness ==
    /\ app = "ctx" /\ ev.type = "bg" /\ ev.pre.section = "Work"
    /\ Len(ev.calls) = 2 /\ ev.calls[2].op = "update_task"
    /\ tasks[procs[ev.proc].task_id].project_id = P_WORK
    /\ tasks[procs[ev.proc].task_id].labels
          = ev.pre.labels \o <<"context/work">>
    /\ ev.pre.labels # <<>>

\* C24: move_task_to_project_and_section to a project that has no section
\* with the requested prefix moves the task to the project only.  When the
\* section list it read holds no such section, the step that resumes it
\* issues no call (no section is created, no section move), the move is
\* reported as done (process_move_section ends without trying another
\* label), and the task is in the target project without a section.
C24_MoveToProjectOnly ==
    (app = "org" /\ ev.type = "bg") =>
       LET p == procs[ev.proc] IN
       (/\ p.pc = "done" /\ p.idx > 0
        /\ p.move_type \in {"move/immediate", "move/parallel"}
        /\ ~(IF p.move_type = "move/immediate" THEN p.secs.immediate
             ELSE p.secs.parallel)) =>
          /\ ev.calls = <<>>
          /\ sections[p.target] = p.secs
          /\ tasks[p.task_id].project_id = p.target
          /\ tasks[p.task_id].section = NoSection

C24_Witness ==
    /\ app = "org" /\ ev.type = "bg"
    /\ procs[ev.proc].pc = "done" /\ procs[ev.proc].idx = 1
    /\ procs[ev.proc].move_type = "move/parallel"
    /\ procs[ev.proc].labels = <<"context/work", "context/home">>
    /\ ~procs[ev.proc].secs.parallel
    /\ tasks[procs[ev.proc].task_id].project_id = P_WORK
    /\ tasks[procs[ev.proc].task_id].section = NoSection

\* C25: for a task in a move-directive section that carries none of the
\* labels of LABEL_TO_PROJECT_MAPPING (context/work, context/home,
\* context/side), a task without labels included, the background action
\* issues no move and no other mutating call.
C25_NoMatchingLabelNoMove ==
    \A p \in Slots :
       (/\ app = "org" /\ Processing(p)
        /\ procs[p].section_id \in {"Move to Immediate", "Move to Parallel",
                                     "Move to project Inbox"}
        /\ \A i \in 1..Len(tasks[procs[p].task_id].labels) :
              tasks[procs[p].task_id].labels[i]
                 \notin {"context/work", "context/home", "context/side"}) =>
          /\ ~procs[p].mutated /\ procs[p].moved = {}
          /\ tasks[procs[p].task_id].project_id = INBOX_PROJECT_ID
          /\ (ev.type = "bg" /\ ev.proc = p) =>
                \A i \in 1..Len(ev.calls) : ~ev.calls[i].mut

C25_Witness ==
    \E p \in Slots :
       /\ app = "org" /\ procs[p].pc = "done"
       /\ procs[p].move_type = "move/immediate"
       /\ procs[p].labels = <<"later">>
       /\ tasks[procs[p].task_id].labels = <<"later">>
       /\ ~procs[p].mutated
       /\ ev.type = "bg" /\ ev.proc = p

\* ---------------------------------------------------------------- SpecHook
\* The organizer under a coarse clock: events for task t1, with and without
\* a section id, their background actions running concurrently, and every
\* answer of the external API, 429 included.
HookSections == {NoSection, "Someday"}

InitHook ==
    /\ InitBase
    /\ app = "org"
    /\ tasks = [id \in TaskIds |->
                  Task(<<>>, NoDue, INBOX_PROJECT_ID,
                       IF id = "t1" THEN "Someday" ELSE NoSection)]
    /\ sections = [pr \in Projects |-> NoSecs]

NextHook ==
    \/ Tick(GuardOffsets)
    \/ OrgEvent({"t1"}, HookSections)
    \/ \E p \in Slots : OrgStart(p)
    \/ \E p \in Slots : OrgGetSection(p)
    \/ \E p \in Slots : OrgGetTask(p)

SpecHook == InitHook /\ [][NextHook]_vars

\* The last step handled an event that reached the guarded scheduling of
\* lines 405-413.
GuardedEvent ==
    /\ ev.type = "webhook" /\ ev.item /\ ev.reached /\ ~ev.skipped
    /\ ev.sec # NoSection

\* C7: with the guard set to reset time R, a guarded call attempted before R
\* is short-circuited (check_rate_limit raises, the step contacts the
\* external API no further, the handler schedules nothing), and a guarded
\* call attempted at or after R clears the guard (flag false, reset time 0)
\* and proceeds.
C7_GuardShortCircuitsUntilReset ==
    /\ ev.type = "bg" =>
          \A i \in 1..Len(ev.checks) :
             LET c == ev.checks[i] IN
             /\ (c.rl /\ ev.t < c.rt) =>
                   c.raised /\ Len(ev.calls) = c.ncalls
             /\ (c.rl /\ ev.t >= c.rt) =>
                   /\ ~c.raised /\ ~c.rl2 /\ c.rt2 = 0
                   /\ Len(ev.calls) > c.ncalls
                   /\ ~ev.calls[c.ncalls + 1].guard
    /\ GuardedEvent =>
          /\ (ev.rl /\ ev.t < ev.rt) =>
                ev.answer = "rate limited" /\ ~ev.scheduled
          /\ (ev.rl /\ ev.t >= ev.rt) =>
                /\ ev.scheduled
                /\ ~rate_limited /\ rate_limit_reset_time = 0

C7_Witness ==
    /\ ev.type = "bg" /\ Len(ev.checks) > 0
    /\ ev.checks[1].rl /\ ev.t >= ev.checks[1].rt
    /\ ~ev.checks[1].raised /\ Len(ev.calls) > 0

\* C8: no call to the external API is issued while the guard is active and
\* its reset time has not passed.
C8_NoCallWhileGuardActive ==
    ev.type = "bg" => \A i \in 1..Len(ev.calls) : ~ev.calls[i].guard

\* C10: an item:added / item:updated event received while the guard is
\* active and unexpired is answered "rate limited", and one received while
\* it is not is answered "ok".
C10_AnswerFollowsGuard ==
    (ev.type = "webhook" /\ ev.item) =>
       /\ ev.guard => ev.answer = "rate limited"
       /\ ~ev.guard => ev.answer = "ok"

\* ---------------------------------------------------------------- SpecMove
\* Task t1 starts outside any section of the Inbox project and is reported
\* there; the user then drags it into the section "Work" and later into
\* "Home", and Todoist reports each placement.  Both programs, under the
\* clock of their dedup window, with the background actions the events
\* schedule running concurrently.
InitMove ==
    /\ InitBase
    /\ app \in {"org", "ctx"}
    /\ tasks = [id \in TaskIds |-> Task(<<>>, NoDue, INBOX_PROJECT_ID, NoSection)]
    /\ sections = [pr \in Projects |-> NoSecs]

\* The user moves t1 to its next section (none, then "Work", then "Home"),
\* once its current placement has been reported.
UserMoves ==
    LET sec == tasks["t1"].section
        next == IF sec = NoSection THEN "Work"
                ELSE IF sec = "Work" THEN "Home" ELSE sec
    IN  /\ hist["t1"].seen
        /\ ev.type \in {"webhook", "tick"}
        /\ next # sec
        /\ tasks' = [tasks EXCEPT !["t1"].section = next,
                                  !["t1"].project_id = INBOX_PROJECT_ID]
        /\ ev' = [type |-> "move", id |-> "t1", from |-> sec, t |-> now]
        /\ UNCHANGED <<app, now, rate_limited, rate_limit_reset_time,
                       processed_tasks, cl_processed_tasks, sections, procs,
                       hist>>

\* Besides the clock, the user and the background actions: Todoist reports t1
\* with the section it sits in, to the program that runs.
NextMove ==
    \/ Tick(IF app = "org" THEN OrgOffsets ELSE ClOffsets)
    \/ UserMoves
    \/ \E name \in {"item:added", "item:updated"} :
          todoist_webhook(name, "t1", INBOX_PROJECT_ID, tasks["t1"].section)
    \/ \E name \in {"item:added", "item:updated"}, fetch_ok \in BOOLEAN :
          cl_todoist_webhook(name, "t1", TRUE, fetch_ok)
    \/ \E p \in Slots : OrgStart(p)
    \/ \E p \in Slots : OrgGetSection(p)
    \/ \E p \in Slots : OrgGetTask(p)
    \/ \E p \in Slots : OrgAlGetTask(p)
    \/ \E p \in Slots : ClProcessTask(p)

SpecMove == InitMove /\ [][NextMove]_vars

\* C13: a task first reported outside any section and then reported as moved
\* into a context-mapped section (here "Work") is processed on that second
\* event (a background action is scheduled for it), whatever the time elapsed
\* between the two events.
C13_MovedTaskIsProcessed ==
    [][(/\ ev.type = "move" /\ ev.from = NoSection
        /\ ev'.type = "webhook" /\ ev'.item /\ ev'.sec = "Work") =>
          (ev'.reached => ev'.scheduled /\ ~ev'.skipped)]_vars

\* Coroutine p ran process_task in the organizer and its add_label_to_task
\* wrote the labels of its task.
WroteLabel(p) ==
    /\ app = "org" /\ procs[p].pc = "done" /\ procs[p].job = "process_task"
    /\ procs[p].ret = "True" /\ procs[p].writes > 0

\* C19: no per-task mutual exclusion.  Two background actions for the same
\* task, scheduled a window apart, interleave the read and the write of
\* add_label_to_task, and the final label list can lack a label one of them
\* wrote (C19_Witness).  A written label is lost in no other way: whenever
\* the task lacks a label that an action wrote, another action for the same
\* task wrote labels it had read before that label was there.
C19_LostUpdateByInterleaving ==
    \A p \in Slots :
       (WroteLabel(p)
        /\ ~InSeq(procs[p].label, tasks[procs[p].task_id].labels)) =>
          \E q \in Slots :
             /\ q # p /\ WroteLabel(q)
             /\ procs[q].task_id = procs[p].task_id
             /\ ~InSeq(procs[p].label, procs[q].labels)

C19_Witness ==
    \E p, q \in Slots :
       /\ p # q /\ WroteLabel(p) /\ WroteLabel(q)
       /\ procs[q].task_id = procs[p].task_id
       /\ procs[p].label = "context/work" /\ procs[q].label = "context/home"
       /\ tasks[procs[p].task_id].labels = <<"context/home">>



\* ---------------------------------------------------------------- SpecScope
\* The context labeler and tasks inside and outside its scope: t1 sits in the
\* Inbox project or in the work project, in no section, in the context
\* section "Work" or in "Due Today"; Todoist reports t1 as the clock passes
\* the dedup windows.
ScopeProjects == {INBOX_PROJECT_ID, LABEL_TO_PROJECT_MAPPING["context/work"]}
ScopeSections == {NoSection, "Work", "Due Today"}

InitScope ==
    /\ InitBase
    /\ app = "ctx"
    /\ \E pr \in ScopeProjects, sec \in ScopeSections :
          tasks = [id \in TaskIds |->
                     IF id = "t1" THEN Task(<<>>, NoDue, pr, sec)
                     ELSE Task(<<>>, NoDue, INBOX_PROJECT_ID, NoSection)]
    /\ sections = [pr \in Projects |-> NoSecs]

NextScope ==
    \/ Tick(ClOffsets)
    \/ \E name \in {"item:added", "item:updated"}, fetch_ok \in BOOLEAN :
          cl_todoist_webhook(name, "t1", TRUE, fetch_ok)
    \/ \E p \in Slots : ClProcessTask(p)

SpecScope == InitScope /\ [][NextScope]_vars

\* C27: in context_labeler, a background action for a task whose project is
\* not the Inbox project, or that has no section, issues no call at all: no
\* label write, no move, no due-date write and no reminder; it ends and the
\* tasks are as they were.
C27_OutOfScopeNoMutation ==
    [][\A p \in Slots :
         (/\ app = "ctx" /\ procs[p].pc = "scheduled"
          /\ procs[p].job = "process_task"
          /\ (procs[p].project_id # INBOX_PROJECT_ID
                \/ procs[p].section_id = NoSection)
          /\ ev'.type = "bg" /\ ev'.proc = p) =>
            /\ ev'.calls = <<>>
            /\ procs'[p].pc = "done"
            /\ ~procs'[p].mutated /\ procs'[p].moved = {}
            /\ procs'[p].writes = 0
            /\ UNCHANGED <<tasks, sections>>]_vars

C27_Witness ==
    \E p \in Slots :
       /\ app = "ctx" /\ ev.type = "bg" /\ ev.proc = p
       /\ procs[p].pc = "done" /\ procs[p].job = "process_task"
       /\ procs[p].project_id # INBOX_PROJECT_ID
       /\ procs[p].section_id = "Work"
       /\ ev.calls = <<>> /\ ~procs[p].mutated
       /\ tasks[procs[p].task_id].project_id = procs[p].project_id

\* ----------------------------------------------------------------- SpecDue
\* The relative branch of the context labeler's set_due_date (lines 115-141),
\* as a function of the local wall-clock time it reads, of the UTC offset of
\* that time in USER_TIMEZONE (America/Chicago: -6 or -5 hours) and of the
\* parsed due_string.  A datetime is a record of year, month, day, hour and
\* minute (the seconds are carried through unchanged).
MaxAmount == 3

DaysInMonth(y, m) ==
    IF m = 2
    THEN IF (y % 4 = 0 /\ y % 100 # 0) \/ y % 400 = 0 THEN 29 ELSE 28
    ELSE IF m \in {4, 6, 9, 11} THEN 30 ELSE 31

\* dt + timedelta(days=n), n >= 0.
RECURSIVE AddDays(_, _)
AddDays(dt, n) ==
    IF n = 0 THEN dt
    ELSE AddDays(IF dt.day < DaysInMonth(dt.year, dt.month)
                 THEN [dt EXCEPT !.day = @ + 1]
                 ELSE IF dt.month < 12
                 THEN [dt EXCEPT !.day = 1, !.month = @ + 1]
                 ELSE [dt EXCEPT !.day = 1, !.month = 1, !.year = @ + 1],
                 n - 1)

\* A faulty variant of the addition of hours, which wraps the hour without
\* moving to the next day.
AddHours_same_day(dt, n) == [dt EXCEPT !.hour = (@ + n) % 24]

\* dt + timedelta(hours=n), n >= 0.
AddHours(dt, n) ==
    AddDays([dt EXCEPT !.hour = (@ + n) % 24], (dt.hour + n) \div 24)

\* dt + relativedelta(months=n), n >= 0: the month n months on, the day cut
\* to the length of that month.
AddMonths(dt, n) ==
    LET k == dt.month - 1 + n
        y == dt.year + (k \div 12)
        m == (k % 12) + 1
    IN  [dt EXCEPT !.year = y, !.month = m,
                   !.day = IF dt.day > DaysInMonth(y, m)
                           THEN DaysInMonth(y, m) ELSE dt.day]

\* Lines 117-141 for due_string = "+<amount> <unit>" read at the local time
\* now_local, whose UTC offset is offset hours: the Due assigned to task.due.
\* date is due_date_utc as strftime("%Y-%m-%dT%H:%M:%S.000000Z") writes it,
\* string is due_date as strftime('%Y-%m-%d') and strftime('%I:%M %p') write
\* it (12-hour clock with AM/PM).
cl_relative_due(now_local, offset, amount, unit) ==
    LET due_date == IF unit \in {"hour", "hours"}
                    THEN AddHours(now_local, amount)
                    ELSE IF unit \in {"day", "days"}
                    THEN AddDays(now_local, amount)
                    ELSE IF unit \in {"week", "weeks"}
                    THEN AddDays(now_local, 7 * amount)
                    ELSE AddMonths(now_local, amount)
        due_date_utc == AddHours(due_date, 0 - offset)
    IN  [date |-> due_date_utc,
         timezone |-> "America/Chicago",
         string |-> [year |-> due_date.year, month |-> due_date.month,
                     day |-> due_date.day,
                     hour12 |-> IF due_date.hour % 12 = 0 THEN 12
                                ELSE due_date.hour % 12,
                     minute |-> due_date.minute,
                     pm |-> due_date.hour >= 12]]

\* A due_string is the sequence of its characters.  str.split(): the words
\* between the runs of blanks.
RECURSIVE split(_)
split(s) ==
    IF s = <<>> THEN <<>>
    ELSE IF s[1] = " " THEN split(Tail(s))
    ELSE LET ends == {i \in 1..Len(s) : s[i] = " "}
             n == IF ends = {} THEN Len(s) + 1
                  ELSE CHOOSE i \in ends : \A j \in ends : i <= j
         IN  <<SubSeq(s, 1, n - 1)>> \o split(SubSeq(s, n, Len(s)))

\* str.lower().
lower(word) ==
    LET upper == <<"A", "B", "C", "D", "E", "F", "G", "H", "I", "J", "K", "L",
                   "M", "N", "O", "P", "Q", "R", "S", "T", "U", "V", "W", "X",
                   "Y", "Z">>
        small == <<"a", "b", "c", "d", "e", "f", "g", "h", "i", "j", "k", "l",
                   "m", "n", "o", "p", "q", "r", "s", "t", "u", "v", "w", "x",
                   "y", "z">>
    IN  [i \in 1..Len(word) |->
           IF \E k \in 1..26 : upper[k] = word[i]
           THEN small[CHOOSE k \in 1..26 : upper[k] = word[i]]
           ELSE word[i]]

\* int(parts[0]) for a word without sign or underscore: whether it raises
\* ValueError, and its value.
Digits == <<"0", "1", "2", "3", "4", "5", "6", "7", "8", "9">>
int_raises(word) ==
    word = <<>> \/ \E i \in 1..Len(word) : \A k \in 1..10 : Digits[k] # word[i]

RECURSIVE int(_)
int(word) ==
    IF word = <<>> THEN 0
    ELSE 10 * int(SubSeq(word, 1, Len(word) - 1))
         + (CHOOSE k \in 1..10 : Digits[k] = word[Len(word)]) - 1

\* A variant of the unit test of lines 122-131 that takes every unknown
\* unit for days.
cl_unit_lenient(word) ==
    IF word \in {<<"h", "o", "u", "r">>, <<"h", "o", "u", "r", "s">>}
    THEN "hours" ELSE "days"

\* The branch of lines 122-131 that the unit takes ("": the else branch,
\* which raises ValueError).
cl_unit(word) ==
    IF word \in {<<"h", "o", "u", "r">>, <<"h", "o", "u", "r", "s">>}
    THEN "hours"
    ELSE IF word \in {<<"d", "a", "y">>, <<"d", "a", "y", "s">>}
    THEN "days"
    ELSE IF word \in {<<"w", "e", "e", "k">>, <<"w", "e", "e", "k", "s">>}
    THEN "weeks"
    ELSE IF word \in {<<"m", "o", "n", "t", "h">>,
                      <<"m", "o", "n", "t", "h", "s">>}
    THEN "months"
    ELSE ""

\* context_labeler.set_due_date, lines 109-160, for a due_string that starts
\* with "+", read at the local time now_local.  Every exception ends in the
\* except block of line 158.
cl_set_due_date_relative(w, p, due_string, now_local, offset, o) ==
    IF o = "fail_read" THEN Ret(w, p, FALSE)
    ELSE LET parts == split(Tail(due_string)) IN
         IF Len(parts) # 2 THEN Ret(w, p, FALSE)
         ELSE IF int_raises(parts[1]) THEN Ret(w, p, FALSE)
         ELSE LET unit == cl_unit(lower(parts[2])) IN
              IF unit = "" THEN Ret(w, p, FALSE)
              ELSE LET d == cl_relative_due(now_local, offset, int(parts[1]),
                                            unit)
                       q == [p EXCEPT !.due = d]
                       w1 == Call(w, "update_task", TRUE, "")
                   IN  IF o = "ok"
                       THEN Ret([w1 EXCEPT !.tasks[p.task_id].due = d], q, TRUE)
                       ELSE Ret(w1, q, FALSE)

\* Relative due strings: well-formed ones ("+1 hour", "+2 Days", "+1 week",
\* "+3 months", "+  1 hours "), ones that do not split into two words ("+",
\* "+1", "+1hour", "+1 hour later"), ones with an unknown unit ("+1 minute",
\* "+2 years") and one whose amount is no number ("+x days").
DueStrings ==
    {<<"+", "1", " ", "h", "o", "u", "r">>,
     <<"+", "2", " ", "D", "a", "y", "s">>,
     <<"+", "1", " ", "w", "e", "e", "k">>,
     <<"+", "3", " ", "m", "o", "n", "t", "h", "s">>,
     <<"+", " ", " ", "1", " ", "h", "o", "u", "r", "s", " ">>,
     <<"+">>,
     <<"+", "1">>,
     <<"+", "1", "h", "o", "u", "r">>,
     <<"+", "1", " ", "h", "o", "u", "r", " ", "l", "a", "t", "e", "r">>,
     <<"+", "1", " ", "m", "i", "n", "u", "t", "e">>,
     <<"+", "2", " ", "y", "e", "a", "r", "s">>,
     <<"+", "x", " ", "d", "a", "y", "s">>}

InitDue ==
    /\ InitBase
    /\ app = "ctx"
    /\ \E due \in {NoDue, SomeDue} :
          tasks = [id \in TaskIds |->
                     Task(<<>>, due, INBOX_PROJECT_ID, "In 1 hour")]
    /\ sections = [pr \in Projects |-> NoSecs]

\* One call of set_due_date with a relative due_string, at a local time on
\* either side of midnight, of the end of a month and of a year, in winter
\* and summer time.
SetRelativeDue ==
    /\ ev.type = "init"
    /\ \E date \in {<<2024, 1, 1>>, <<2024, 1, 31>>, <<2023, 2, 28>>,
                     <<2024, 2, 28>>, <<2024, 2, 29>>, <<2024, 7, 4>>,
                     <<2024, 12, 31>>},
          hour \in {0, 11, 12, 17, 18} \cup (24 - MaxAmount .. 23),
          minute \in {0, 30, 59},
          amount \in 1..MaxAmount,
          unit \in {"hour", "hours", "day", "weeks"} :
             LET now_local == [year |-> date[1], month |-> date[2],
                               day |-> date[3], hour |-> hour,
                               minute |-> minute]
                 offset == IF date[2] \in 4..10 THEN 0 - 5 ELSE 0 - 6
             IN  ev' = [type |-> "due", now |-> now_local, offset |-> offset,
                        amount |-> amount, unit |-> unit,
                        due |-> cl_relative_due(now_local, offset, amount,
                                                unit)]
    /\ UNCHANGED <<app, now, rate_limited, rate_limit_reset_time,
                   processed_tasks, cl_processed_tasks, tasks, sections,
                   procs, hist>>

\* One call of set_due_date(api, "t1", due_string) with a due string that
\* starts with "+", under every outcome of get_task and of the commit.
SetDueDate ==
    /\ ev.type = "init"
    /\ \E s \in DueStrings, o \in ClOutcomes,
          date \in {<<2024, 1, 31>>, <<2024, 7, 4>>} :
             LET now_local == [year |-> date[1], month |-> date[2],
                               day |-> date[3], hour |-> 23, minute |-> 30]
                 offset == IF date[2] \in 4..10 THEN 0 - 5 ELSE 0 - 6
                 r == cl_set_due_date_relative(World,
                         [Idle EXCEPT !.task_id = "t1", !.due = tasks["t1"].due],
                         s, now_local, offset, o)
             IN  /\ tasks' = r.w.tasks
                 /\ ev' = [type |-> "set_due_date", due_string |-> s,
                            now |-> now_local, outcome |-> o, ret |-> r.ret,
                            calls |-> r.w.calls, pre |-> tasks["t1"],
                            local |-> r.p.due]
    /\ UNCHANGED <<app, now, rate_limited, rate_limit_reset_time,
                   processed_tasks, cl_processed_tasks, sections, procs, hist>>

NextDue == SetRelativeDue \/ SetDueDate

SpecDue == InitDue /\ [][NextDue]_vars

\* The minutes between 2023-01-01T00:00 and a datetime, counted over the
\* calendar.
MinuteNumber(dt) ==
    Cardinality({d \in (2023..dt.year) \X (1..12) \X (1..31) :
                    /\ d[3] <= DaysInMonth(d[1], d[2])
                    /\ \/ d[1] < dt.year
                       \/ d[1] = dt.year /\ d[2] < dt.month
                       \/ d[1] = dt.year /\ d[2] = dt.month /\ d[3] < dt.day})
       * 1440 + dt.hour * 60 + dt.minute

\* The local datetime that the string of a Due reads as.
LocalOf(due) ==
    [year |-> due.string.year, month |-> due.string.month,
     day |-> due.string.day,
     hour |-> (due.string.hour12 % 12) + (IF due.string.pm THEN 12 ELSE 0),
     minute |-> due.string.minute]

\* C17: set_due_date with "+N hours" at the local time t yields the local due
\* time t + N hours, a valid calendar date that rolls into the next day when
\* the sum crosses midnight ("+1 hour" at 2024-01-01T23:30 gives
\* 2024-01-02T00:30), and the date written is the same instant in UTC.
C17_RelativeDueDate ==
    (ev.type = "due" /\ ev.unit \in {"hour", "hours"}) =>
       LET local == LocalOf(ev.due) IN
       /\ MinuteNumber(local) = MinuteNumber(ev.now) + 60 * ev.amount
       /\ local.day \in 1..DaysInMonth(local.year, local.month)
       /\ local.month \in 1..12 /\ local.hour \in 0..23
       /\ ev.due.date.day \in 1..DaysInMonth(ev.due.date.year, ev.due.date.month)
       /\ ev.due.date.month \in 1..12 /\ ev.due.date.hour \in 0..23
       /\ MinuteNumber(ev.due.date) = MinuteNumber(local) - 60 * ev.offset
       /\ (ev.now = [year |-> 2024, month |-> 1, day |-> 1, hour |-> 23,
                     minute |-> 30] /\ ev.amount = 1) =>
             /\ local = [year |-> 2024, month |-> 1, day |-> 2, hour |-> 0,
                         minute |-> 30]
             /\ ev.due.date = [year |-> 2024, month |-> 1, day |-> 2,
                               hour |-> 6, minute |-> 30]

C17_Witness ==
    /\ ev.type = "due" /\ ev.unit = "hour" /\ ev.amount = 1
    /\ ev.now = [year |-> 2024, month |-> 1, day |-> 1, hour |-> 23,
                 minute |-> 30]
    /\ ev.due.string.day = 2 /\ ev.due.string.hour12 = 12 /\ ~ev.due.string.pm


\* C28: set_due_date with a relative due string that is malformed (what
\* follows the "+" does not split into exactly two words, an amount and a
\* unit) or whose unit is none of hour(s), day(s), week(s), month(s) returns
\* False and issues no update_task; the due date of the task in the external
\* system is unchanged.
C28_BadRelativeStringNoWrite ==
    ev.type = "set_due_date" =>
       LET parts == split(Tail(ev.due_string)) IN
       (\/ Len(parts) # 2
        \/ lower(parts[2]) \notin
              {<<"h", "o", "u", "r">>, <<"h", "o", "u", "r", "s">>,
               <<"d", "a", "y">>, <<"d", "a", "y", "s">>,
               <<"w", "e", "e", "k">>, <<"w", "e", "e", "k", "s">>,
               <<"m", "o", "n", "t", "h">>, <<"m", "o", "n", "t", "h", "s">>}
        \/ \E i \in 1..Len(parts[1]) :
              parts[1][i] \notin {"0", "1", "2", "3", "4", "5", "6", "7", "8",
                                  "9"}) =>
          /\ ev.ret = FALSE
          /\ ev.calls = <<>>
          /\ tasks["t1"] = ev.pre
          /\ ev.local = ev.pre.due

C28_Witness ==
    /\ ev.type = "set_due_date" /\ ev.outcome = "ok"
    /\ ev.due_string = <<"+", "1", " ", "m", "i", "n", "u", "t", "e">>
    /\ ev.ret = FALSE /\ ev.calls = <<>>
    /\ ev.pre.due = SomeDue /\ tasks["t1"].due = SomeDue

\* --------------------------------------------------------------- SpecInbox
\* The organizer with two tasks in the section "Move to project Inbox", each
\* carrying a context label (t2 that of the work project, t1 any), in
\* projects that have no staging section yet; one event per task, and their
\* background actions running concurrently.
InitInbox ==
    /\ InitBase
    /\ app = "org"
    /\ \E ls \in {<<"context/work">>, <<"context/home">>,
                   <<"urgent", "context/work">>} :
          tasks = [id \in TaskIds |->
                     Task(IF id = "t1" THEN ls ELSE <<"context/work">>, NoDue,
                          INBOX_PROJECT_ID, "Move to project Inbox")]
    /\ sections = [pr \in Projects |-> NoSecs]

NextInbox ==
    \/ \E id \in TaskIds :
          /\ ~hist[id].seen
          /\ todoist_webhook("item:updated", id, INBOX_PROJECT_ID,
                             tasks[id].section)
    \/ \E p \in Slots : OrgStart(p)
    \/ \E p \in Slots : OrgGetSection(p)
    \/ \E p \in Slots : OrgGetTask(p)
    \/ \E p \in Slots : OrgPmsGetTask(p)
    \/ \E p \in Slots : OrgInboxGetSections(p)
    \/ \E p \in Slots : OrgInboxAddSection(p)

SpecInbox == InitInbox /\ [][NextInbox]_vars

\* C21: find-or-create of the staging section creates at most one section
\* per project: whatever the interleaving of the background actions, a
\* project holds at most one section whose name starts with "Inbox *".
C21_OneInboxSectionPerProject ==
    \A pr \in Projects : sections[pr].inbox <= 1

\* C22: no section is ever created inside the Inbox project: every
\* add_section call of a background action targets a project id that is a
\* value of LABEL_TO_PROJECT_MAPPING, none of which is INBOX_PROJECT_ID, and
\* the Inbox project never gets a staging section.
C22_NoSectionCreatedInInbox ==
    /\ sections[INBOX_PROJECT_ID].inbox = 0
    /\ ev.type = "bg" =>
          \A i \in 1..Len(ev.calls) :
             ev.calls[i].op = "add_section" =>
                /\ ev.calls[i].project # INBOX_PROJECT_ID
                /\ ev.calls[i].project \in {P_WORK, P_HOME, P_SIDE}
                /\ \E l \in DOMAIN LABEL_TO_PROJECT_MAPPING :
                      LABEL_TO_PROJECT_MAPPING[l] = ev.calls[i].project

C22_Witness ==
    /\ ev.type = "bg"
    /\ \E i \in 1..Len(ev.calls) :
          ev.calls[i].op = "add_section" /\ ev.calls[i].project = P_HOME
    /\ sections[P_HOME].inbox = 1

=============================================================================
